---- MODULE Spec2Model ----
(***************************************************************************)
(* Model of the expression-tree engine of elzorich/celonis_task:           *)
(*   - AstManipulatorService (src/src/app/services/ast-manipulator.        *)
(*     service.ts): the current tree, the current selection, setAst,       *)
(*     selectNode, deleteNode, clearAst and the derived metrics;           *)
(*   - the node model and its type guards (src/unnamed/part_000).          *)
(*                                                                         *)
(* A node is a record.  Its fields are those of the TypeScript object:     *)
(* type, id, selected, and left/right, expression, name/arguments, value   *)
(* or name depending on the variant.  A raw (parsed) node has no id and    *)
(* no selected field; a placeholder made by a deletion has an id but no    *)
(* selected field, exactly as the object literals of the source.           *)
(* Identifiers are strings built by concatenation, as in the source.       *)
(***************************************************************************)
EXTENDS Integers, Sequences, FiniteSets, TLC

VARIABLES
    ast,            \* _ast: the current tree, or null
    selectedNodeId, \* _selectedNodeId: an identifier, or NullId
    now,            \* the value Date.now() returns (milliseconds)
    lastOp,         \* history: name of the last service call
    lastArg,        \* history: the identifier passed to that call
    prevAst,        \* history: _ast before the last selectNode/deleteNode
    prevSel,        \* history: _selectedNodeId before that call
    lastRaw,        \* history: the tree passed to the last call, if it was setAst
    output          \* the value returned by the last FormulaBuilderService call

vars == <<ast, selectedNodeId, now, lastOp, lastArg, prevAst, prevSel,
          lastRaw, output>>

(***************************************************************************)
(* Values standing for JavaScript's null.                                  *)
(***************************************************************************)
null == [null |-> TRUE]     \* a null AstNode reference
NullId == "<null>"          \* a null identifier; no identifier contains '<'

(***************************************************************************)
(* Bounds of the model.                                                    *)
(***************************************************************************)
MaxClock == 1               \* Date.now() ranges over 0..MaxClock

\* The suffixes Math.random().toString(36).substr(2, 9) is drawn from:
\* lower-case base-36 strings, the empty string included (Math.random() = 0).
Suffixes == {"", "a"}

(***************************************************************************)
(* JavaScript values a `value` field may hold.  A number is integral,      *)
(* a decimal with two fractional digits (n + cents/100), NaN or an         *)
(* infinity; a string and undefined stand for the values that are not      *)
(* numbers.                                                                *)
(***************************************************************************)
JsInt(n) == [kind |-> "integer", n |-> n]
JsDecimal(n, cents) == [kind |-> "decimal", n |-> n, cents |-> cents]
JsNaN == [kind |-> "NaN"]
JsInfinity == [kind |-> "Infinity"]
JsNegInfinity == [kind |-> "-Infinity"]
JsString(str) == [kind |-> "string", str |-> str]
JsUndefined == [kind |-> "undefined"]

\* typeof v === 'number'
typeofNumber(v) ==
    v.kind \in {"integer", "decimal", "NaN", "Infinity", "-Infinity"}

\* isNaN(v), for a v of type number
isNaN(v) == v.kind = "NaN"

(***************************************************************************)
(* Node model: constructors of raw nodes (parser output).                  *)
(***************************************************************************)
NumberOf(v) == [type |-> "NUMBER", value |-> v]
Number(n) == NumberOf(JsInt(n))
Variable(n) == [type |-> "VARIABLE", name |-> n]
Constant(t) == [type |-> t]
Binary(t, l, r) == [type |-> t, left |-> l, right |-> r]
Unary(t, e) == [type |-> t, expression |-> e]
Function(n, args) == [type |-> "FUNCTION", name |-> n, arguments |-> args]

BinaryTypes == {"ADDITION", "SUBTRACTION", "MULTIPLICATION", "DIVISION", "POWER"}
UnaryTypes == {"NEGATION", "PAREN"}

\* The type guards.  src/unnamed/part_000 holds the node model twice; the
\* guards are those of its second copy, where PAREN is a unary operation.
isBinaryOperation(node) == node.type \in BinaryTypes
isUnaryOperation(node) == node.type = "NEGATION" \/ node.type = "PAREN"
isFunction(node) == node.type = "FUNCTION"
isLeafNode(node) == node.type \in {"NUMBER", "VARIABLE", "PI", "E"}

(***************************************************************************)
(* Helpers on sequences and records.                                       *)
(***************************************************************************)
Drop(s, k) == SubSeq(s, k + 1, Len(s))

RECURSIVE Flatten(_)
Flatten(ss) == IF ss = <<>> THEN <<>> ELSE Head(ss) \o Flatten(Tail(ss))

RECURSIVE SumSeq(_)
SumSeq(s) == IF s = <<>> THEN 0 ELSE Head(s) + SumSeq(Tail(s))

\* faulty variant: the first argument wins whatever the second
MaxOfFirst(a, b) == a

\* Math.max of two numbers
Max(a, b) == IF a >= b THEN a ELSE b

RECURSIVE MaxSeq(_)
MaxSeq(s) == IF Len(s) = 1 THEN Head(s) ELSE Max(Head(s), MaxSeq(Tail(s)))

\* { ...node, <fields of over> }: object spread with overriding fields
Spread(node, over) == over @@ node

\* a || b on node references: an object is truthy, null is falsy
OrElse(a, b) == IF a = null THEN b ELSE a

(***************************************************************************)
(* Derived metrics.                                                        *)
(***************************************************************************)
RECURSIVE countNodes(_)
countNodes(node) ==
    IF isBinaryOperation(node) THEN 1 + countNodes(node.left) + countNodes(node.right)
    ELSE IF isUnaryOperation(node) THEN 1 + countNodes(node.expression)
    ELSE IF isFunction(node) THEN 1 + SumSeq([i \in 1..Len(node.arguments) |-> countNodes(node.arguments[i])])
    ELSE 1

RECURSIVE calculateDepth(_)
calculateDepth(node) ==
    IF isBinaryOperation(node)
    THEN 1 + Max(calculateDepth(node.left), calculateDepth(node.right))
    ELSE IF isUnaryOperation(node) THEN 1 + calculateDepth(node.expression)
    ELSE IF isFunction(node)
    THEN 1 + (IF Len(node.arguments) > 0
              THEN MaxSeq([i \in 1..Len(node.arguments) |->
                             calculateDepth(node.arguments[i])])
              ELSE 0)
    ELSE 1

(***************************************************************************)
(* addNodeIds: stamps every node with `${path}${type}_${suffix}` and       *)
(* selected = false.  rs is the sequence of values the successive          *)
(* Math.random() calls return; the walk is pre-order, so a node takes      *)
(* rs[1] and its children the values after it, left to right.              *)
(***************************************************************************)
\* faulty variant: the identifier without its structural path
stampIdNoPath(path, type, suffix) == type \o "_" \o suffix

\* `${path}${node.type}_${suffix}`
stampId(path, type, suffix) == path \o type \o "_" \o suffix

RECURSIVE addNodeIds(_, _, _)
addNodeIds(node, path, rs) ==
    LET id == stampId(path, node.type, Head(rs))
        nodeWithId == Spread(node, [id |-> id, selected |-> FALSE])
        rest == Tail(rs)
    IN  IF isBinaryOperation(node)
        THEN Spread(nodeWithId,
               [left |-> addNodeIds(node.left, path \o "L_", rest),
                right |-> addNodeIds(node.right, path \o "R_",
                                     Drop(rest, countNodes(node.left)))])
        ELSE IF isUnaryOperation(node)
        THEN Spread(nodeWithId,
               [expression |-> addNodeIds(node.expression, path \o "E_", rest)])
        ELSE IF isFunction(node)
        THEN Spread(nodeWithId,
               [arguments |->
                  [i \in 1..Len(node.arguments) |->
                     addNodeIds(node.arguments[i],
                                path \o "A" \o ToString(i - 1) \o "_",
                                Drop(rest, SumSeq([j \in 1..(i - 1) |->
                                               countNodes(node.arguments[j])])))]])
        ELSE nodeWithId

(***************************************************************************)
(* updateNodeSelection: rebuilds the tree with selected = (id = selectedId)*)
(***************************************************************************)
\* faulty variant: a flag once set is never cleared
selectedFlagSticky(node, selectedId) ==
    node.id = selectedId \/ ("selected" \in DOMAIN node /\ node.selected)

\* selected: node.id === selectedId
selectedFlag(node, selectedId) == node.id = selectedId

\* faulty variant: the copy keeps the type and the identifier only
withSelectedBare(node, flag) ==
    [type |-> node.type, id |-> node.id, selected |-> flag]

\* { ...node, selected: flag }
withSelected(node, flag) == Spread(node, [selected |-> flag])

RECURSIVE updateNodeSelection(_, _)
updateNodeSelection(node, selectedId) ==
    LET updatedNode == withSelected(node, selectedFlag(node, selectedId))
    IN  IF isBinaryOperation(node)
        THEN Spread(updatedNode,
               [left |-> updateNodeSelection(node.left, selectedId),
                right |-> updateNodeSelection(node.right, selectedId)])
        ELSE IF isUnaryOperation(node)
        THEN Spread(updatedNode,
               [expression |-> updateNodeSelection(node.expression, selectedId)])
        ELSE IF isFunction(node)
        THEN Spread(updatedNode,
               [arguments |->
                  [i \in 1..Len(node.arguments) |->
                     updateNodeSelection(node.arguments[i], selectedId)]])
        ELSE updatedNode

(***************************************************************************)
(* removeNodeRecursive.  clock is the value of Date.now() during the call  *)
(* (one deleteNode call reads the clock within a single millisecond).      *)
(***************************************************************************)
\* faulty variant: the placeholder is built without its value
placeholderNoValue(clock) ==
    [type |-> "NUMBER", value |-> JsUndefined,
     id |-> "placeholder_" \o ToString(clock)]

placeholder(clock) ==
    [type |-> "NUMBER", value |-> JsInt(0), id |-> "placeholder_" \o ToString(clock)]

\* faulty variant: the binary node keeps the child that matched and drops the other
otherChildSwapped(node, targetId) ==
    IF node.left.id = targetId THEN node.left ELSE node.right

\* the child a binary node collapses to when a direct child is the target
otherChild(node, targetId) ==
    IF node.left.id = targetId THEN node.right ELSE node.left

\* faulty variant: the unary node is dropped and its rebuilt child returned in its place
unaryRebuiltHoisted(node, updatedExpression) ==
    IF updatedExpression # null THEN updatedExpression ELSE node

\* updatedExpression ? { ...node, expression: updatedExpression } : node
unaryRebuilt(node, updatedExpression) ==
    IF updatedExpression # null
    THEN Spread(node, [expression |-> updatedExpression])
    ELSE node

\* faulty variant: the unary node is kept, with the placeholder as its expression
unaryReplacementKeepsOperator(node, clock) ==
    Spread(node, [expression |-> placeholder(clock)])

\* what a unary node becomes when its expression is the target
unaryReplacement(node, clock) == placeholder(clock)

\* faulty variant: an emptied argument list is left empty
refilledArgsNever(kept, arguments, clock) == kept

\* if (filteredArgs.length === 0 && node.arguments.length > 0) push placeholder
\* faulty variant: a placeholder is appended whatever is left of the list
refilledArgsAlways(kept, arguments, clock) == Append(kept, placeholder(clock))

refilledArgs(kept, arguments, clock) ==
    IF Len(kept) = 0 /\ Len(arguments) > 0
    THEN Append(kept, placeholder(clock))
    ELSE kept

RECURSIVE removeNodeRecursive(_, _, _)
removeNodeRecursive(node, targetId, clock) ==
    IF isBinaryOperation(node)
    THEN IF node.left.id = targetId \/ node.right.id = targetId
         THEN otherChild(node, targetId)
         ELSE Spread(node,
                [left |-> OrElse(removeNodeRecursive(node.left, targetId, clock),
                                 node.left),
                 right |-> OrElse(removeNodeRecursive(node.right, targetId, clock),
                                  node.right)])
    ELSE IF isUnaryOperation(node)
    THEN IF node.expression.id = targetId THEN unaryReplacement(node, clock)
         ELSE unaryRebuilt(node,
                  removeNodeRecursive(node.expression, targetId, clock))
    ELSE IF isFunction(node)
    THEN LET kept == SelectSeq(node.arguments, LAMBDA arg : arg.id # targetId)
             filteredArgs == refilledArgs(kept, node.arguments, clock)
             updatedArgs ==
                 [i \in 1..Len(filteredArgs) |->
                    OrElse(removeNodeRecursive(filteredArgs[i], targetId, clock),
                           filteredArgs[i])]
         IN  Spread(node, [arguments |-> updatedArgs])
    ELSE node

(***************************************************************************)
(* FormulaBuilderService: buildFormula and validateFormula.  The           *)
(* repository holds the service twice: src/src/app/services/               *)
(* formula-builder.service.ts, and a copy that also renders PAREN at       *)
(* src/src/app/services/ast-manipulator.service.ts:297-483.  The two agree *)
(* on everything but PAREN; visitUnaryOperation is the one of the copy     *)
(* that goes with the PAREN-aware type guards.                             *)
(***************************************************************************)
precedence ==
    [ADDITION |-> 1, SUBTRACTION |-> 1, MULTIPLICATION |-> 2, DIVISION |-> 2,
     POWER |-> 3, NEGATION |-> 4]

operators ==
    [ADDITION |-> "+", SUBTRACTION |-> "-", MULTIPLICATION |-> "*",
     DIVISION |-> "/", POWER |-> "^"]

\* !x for a field that holds an object: the field is absent or null
Missing(node, field) == field \notin DOMAIN node \/ node[field] = null

\* faulty variant: equal precedence never asks for parentheses
needsParenthesesNoAssociativity(parent, child, childIsRight) ==
    /\ parent.type \in DOMAIN precedence
    /\ child.type \in DOMAIN precedence
    /\ precedence[child.type] < precedence[parent.type]

\* childIsRight stands for the reference test parent.right === child
needsParentheses(parent, child, childIsRight) ==
    IF parent.type \notin DOMAIN precedence \/ child.type \notin DOMAIN precedence
    THEN FALSE
    ELSE IF precedence[child.type] < precedence[parent.type] THEN TRUE
    ELSE IF precedence[child.type] = precedence[parent.type]
    THEN (parent.type = "SUBTRACTION" \/ parent.type = "DIVISION")
           /\ isBinaryOperation(parent) /\ childIsRight
    ELSE FALSE

TwoDigits(c) == IF c < 10 THEN "0" \o ToString(c) ELSE ToString(c)

\* Number.isInteger(v) ? v.toString() : v.toFixed(2), for a v of type number
visitNumber(node) ==
    LET v == node.value
    IN  IF v.kind = "integer" THEN ToString(v.n)
        ELSE IF v.kind = "decimal" THEN ToString(v.n) \o "." \o TwoDigits(v.cents)
        ELSE v.kind

\* the variable names of the inputs, without a leading '$'
NameStems == {"x", "y"}

\* name.startsWith('$')
StartsWithDollar(name) == \E stem \in NameStems : name = "$" \o stem

visitVariable(node) ==
    IF StartsWithDollar(node.name) THEN node.name ELSE "$" \o node.name

visitConstant(node) == node.type

RECURSIVE JoinComma(_)
JoinComma(texts) ==
    IF texts = <<>> THEN ""
    ELSE IF Len(texts) = 1 THEN Head(texts)
    ELSE Head(texts) \o ", " \o JoinComma(Tail(texts))

\* visit(node, parent): parent is null when the argument is omitted
RECURSIVE visit(_, _, _)

visitBinaryOperation(node, parent, nodeIsRight) ==
    LET operator == IF node.type \in DOMAIN operators THEN operators[node.type]
                    ELSE "?"
        leftExpr == visit(node.left, node, FALSE)
        rightExpr == visit(node.right, node, TRUE)
        expression == leftExpr \o " " \o operator \o " " \o rightExpr
    IN  IF parent # null /\ needsParentheses(parent, node, nodeIsRight)
        THEN "(" \o expression \o ")"
        ELSE expression

visitUnaryOperation(node, parent) ==
    LET expr == visit(node.expression, node, FALSE)
    IN  IF node.type = "PAREN" THEN "(" \o expr \o ")"
        ELSE IF ~Missing(node, "expression") /\ isBinaryOperation(node.expression)
        THEN "-(" \o expr \o ")"
        ELSE "-" \o expr

visitFunction(node) ==
    node.name \o "("
      \o JoinComma([i \in 1..Len(node.arguments) |->
                      visit(node.arguments[i], null, FALSE)])
      \o ")"

visit(node, parent, nodeIsRight) ==
    IF isBinaryOperation(node) THEN visitBinaryOperation(node, parent, nodeIsRight)
    ELSE IF isUnaryOperation(node) THEN visitUnaryOperation(node, parent)
    ELSE IF isFunction(node) THEN visitFunction(node)
    ELSE IF node.type = "NUMBER" THEN visitNumber(node)
    ELSE IF node.type = "VARIABLE" THEN visitVariable(node)
    ELSE IF node.type \in {"PI", "E"} THEN visitConstant(node)
    ELSE "?"

buildFormula(tree) == IF tree = null THEN "" ELSE visit(tree, null, FALSE)

\* the diagnostics of one Number leaf
numberErrors(node) ==
    IF ~typeofNumber(node.value) \/ isNaN(node.value)
    THEN <<"Invalid number value">>
    ELSE <<>>

RECURSIVE validateNode(_)
validateNode(node) ==
    IF isBinaryOperation(node)
    THEN IF Missing(node, "left") \/ Missing(node, "right")
         THEN <<"Binary operation " \o node.type \o " missing operands">>
         ELSE validateNode(node.left) \o validateNode(node.right)
    ELSE IF isUnaryOperation(node)
    THEN IF Missing(node, "expression")
         THEN <<"Unary operation missing expression">>
         ELSE validateNode(node.expression)
    ELSE IF isFunction(node)
    THEN (IF node.name = "" THEN <<"Function missing name">> ELSE <<>>)
           \o (IF Len(node.arguments) = 0
               THEN <<"Function " \o node.name \o " has no arguments">>
               ELSE <<>>)
           \o Flatten([i \in 1..Len(node.arguments) |->
                         validateNode(node.arguments[i])])
    ELSE IF node.type = "NUMBER" THEN numberErrors(node)
    ELSE IF node.type = "VARIABLE"
    THEN IF node.name = "" THEN <<"Variable missing name">> ELSE <<>>
    ELSE <<>>

validateFormula(tree) == validateNode(tree)

\* the first node, parents first and left to right, that carries the identifier
RECURSIVE findNodeById(_, _)
findNodeById(node, id) ==
    IF node.id = id THEN node
    ELSE IF isBinaryOperation(node)
    THEN OrElse(findNodeById(node.left, id), findNodeById(node.right, id))
    ELSE IF isUnaryOperation(node) THEN findNodeById(node.expression, id)
    ELSE IF isFunction(node)
    THEN LET found == SelectSeq([i \in 1..Len(node.arguments) |->
                                   findNodeById(node.arguments[i], id)],
                                LAMBDA f : f # null)
         IN  IF found = <<>> THEN null ELSE Head(found)
    ELSE null

\* the computed signals selectedNode and canDelete
selectedNode ==
    IF ast = null \/ selectedNodeId = NullId THEN null
    ELSE findNodeById(ast, selectedNodeId)

canDelete == selectedNode # null /\ selectedNode # ast

\* the computed signals nodeCount and treeDepth
nodeCount == IF ast # null THEN countNodes(ast) ELSE 0
treeDepth == IF ast # null THEN calculateDepth(ast) ELSE 0

(***************************************************************************)
(* Observers of a tree.                                                    *)
(***************************************************************************)
\* the nodes of a tree, in pre-order
RECURSIVE NodeList(_)
NodeList(node) ==
    IF isBinaryOperation(node)
    THEN <<node>> \o NodeList(node.left) \o NodeList(node.right)
    ELSE IF isUnaryOperation(node) THEN <<node>> \o NodeList(node.expression)
    ELSE IF isFunction(node)
    THEN <<node>> \o Flatten([i \in 1..Len(node.arguments) |->
                                 NodeList(node.arguments[i])])
    ELSE <<node>>

Nodes(tree) == IF tree = null THEN <<>> ELSE NodeList(tree)

\* node.selected is true (an absent field is undefined, hence not true)
IsSelected(node) == "selected" \in DOMAIN node /\ node.selected

SelectedCount(tree) == Len(SelectSeq(Nodes(tree), IsSelected))

IdSet(tree) == {Nodes(tree)[i].id : i \in 1..Len(Nodes(tree))}

IdCount(tree, id) == Len(SelectSeq(Nodes(tree), LAMBDA n : n.id = id))

DistinctIds(tree) == Cardinality(IdSet(tree)) = Len(Nodes(tree))

(***************************************************************************)
(* Inputs: the raw trees handed to setAst.                                 *)
(***************************************************************************)
\* shapes: every variant at the root, every variant as the parent of a
\* deletion target, targets up to three levels below the root, functions of
\* zero to three arguments, and a tree that carries an identifier and a
\* selected flag from an earlier life
RawTrees ==
    { Number(3), Constant("E"), Variable("x"),
      Unary("NEGATION", Spread(Number(4), [id |-> "NUMBER_a", selected |-> TRUE])),
      Binary("ADDITION", Number(3), Number(4)),
      Unary("NEGATION", Number(3)),
      Unary("PAREN", Number(4)),
      Unary("NEGATION", Constant("E")),
      Function("SQRT", <<>>),
      Function("SQRT", <<Number(3)>>),
      Function("MAX", <<Number(3), Number(4)>>),
      Function("IF", <<Number(3), Variable("x"), Number(4)>>),
      Unary("NEGATION", Binary("ADDITION", Number(3), Number(4))),
      Unary("PAREN", Unary("NEGATION", Number(3))),
      Unary("NEGATION", Function("SQRT", <<Number(3)>>)),
      Function("SQRT", <<Binary("MULTIPLICATION", Number(3), Number(4))>>),
      Function("MAX", <<Unary("NEGATION", Number(3)), Number(4)>>),
      Function("MAX", <<Function("SQRT", <<Number(3)>>),
                        Function("SQRT", <<Number(4)>>)>>),
      Binary("SUBTRACTION", Unary("NEGATION", Number(3)), Number(4)),
      Binary("MULTIPLICATION", Number(3), Function("SQRT", <<Number(4)>>)),
      Binary("SUBTRACTION", Unary("NEGATION", Number(3)),
                            Unary("PAREN", Number(4))),
      Binary("POWER", Binary("ADDITION", Number(3), Number(4)), Constant("PI")),
      Binary("ADDITION", Number(1), Binary("MULTIPLICATION", Number(2), Number(3))),
      Binary("DIVISION", Unary("NEGATION", Number(3)),
                         Binary("SUBTRACTION", Variable("x"),
                                               Unary("NEGATION", Number(4)))) }

\* the values of the successive Math.random() calls of one setAst: every
\* sequence of suffixes (AllRandomSeqs), or the sequences that repeat one
\* suffix, the case least favourable to uniqueness (RandomSeqs)
AllRandomSeqs(n) == [1..n -> Suffixes]
RandomSeqs(n) == {[i \in 1..n |-> s] : s \in Suffixes}

(***************************************************************************)
(* The service.                                                            *)
(***************************************************************************)
Init ==
    /\ ast = null
    /\ selectedNodeId = NullId
    /\ now = 0
    /\ lastOp = "init"
    /\ lastArg = NullId
    /\ prevAst = null
    /\ prevSel = NullId
    /\ lastRaw = null
    /\ output = <<>>

\* faulty variant: the selection survives the replacement of the tree
setAstKeepsSelection(raw, rs) ==
    /\ ast' = addNodeIds(raw, "", rs)
    /\ lastOp' = "setAst"
    /\ lastArg' = NullId
    /\ prevAst' = null
    /\ prevSel' = selectedNodeId
    /\ lastRaw' = raw
    /\ UNCHANGED <<selectedNodeId, now, output>>

setAst(raw, rs) ==
    /\ ast' = addNodeIds(raw, "", rs)
    /\ selectedNodeId' = NullId
    /\ lastOp' = "setAst"
    /\ lastArg' = NullId
    /\ prevAst' = null
    /\ prevSel' = selectedNodeId
    /\ lastRaw' = raw
    /\ UNCHANGED <<now, output>>

selectNode(nodeId) ==
    /\ selectedNodeId' = nodeId
    /\ ast' = IF ast # null THEN updateNodeSelection(ast, nodeId) ELSE ast
    /\ lastOp' = "selectNode"
    /\ lastArg' = nodeId
    /\ prevAst' = ast
    /\ prevSel' = selectedNodeId
    /\ lastRaw' = null
    /\ UNCHANGED <<now, output>>

\* faulty variant: the guard against the root identifier is missing
deleteNodeNoRootGuard(nodeId) ==
    /\ IF ast = null
       THEN UNCHANGED <<ast, selectedNodeId>>
       ELSE LET updatedAst == removeNodeRecursive(ast, nodeId, now)
            IN  IF updatedAst # null
                THEN ast' = updatedAst /\ selectedNodeId' = NullId
                ELSE UNCHANGED <<ast, selectedNodeId>>
    /\ lastOp' = "deleteNode"
    /\ lastArg' = nodeId
    /\ prevAst' = ast
    /\ prevSel' = selectedNodeId
    /\ lastRaw' = null
    /\ UNCHANGED <<now, output>>

deleteNode(nodeId) ==
    /\ IF ast = null \/ ast.id = nodeId
       THEN UNCHANGED <<ast, selectedNodeId>>
       ELSE LET updatedAst == removeNodeRecursive(ast, nodeId, now)
            IN  IF updatedAst # null
                THEN ast' = updatedAst /\ selectedNodeId' = NullId
                ELSE UNCHANGED <<ast, selectedNodeId>>
    /\ lastOp' = "deleteNode"
    /\ lastArg' = nodeId
    /\ prevAst' = ast
    /\ prevSel' = selectedNodeId
    /\ lastRaw' = null
    /\ UNCHANGED <<now, output>>

clearAst ==
    /\ ast' = null
    /\ selectedNodeId' = NullId
    /\ lastOp' = "clearAst"
    /\ lastArg' = NullId
    /\ prevAst' = null
    /\ prevSel' = selectedNodeId
    /\ lastRaw' = null
    /\ UNCHANGED <<now, output>>

\* the clock advances between calls
Tick ==
    /\ now < MaxClock
    /\ now' = now + 1
    /\ UNCHANGED <<ast, selectedNodeId, lastOp, lastArg, prevAst, prevSel,
                   lastRaw, output>>

\* identifiers a caller may pass: those of the tree, and one that matches nothing
MissingId == "missing"
CallIds == IdSet(ast) \cup {MissingId}

Next ==
    \/ \E raw \in RawTrees : \E rs \in RandomSeqs(countNodes(raw)) : setAst(raw, rs)
    \/ \E id \in CallIds \cup {NullId} : selectNode(id)
    \/ \E id \in CallIds : deleteNode(id)
    \/ clearAst
    \/ Tick

Spec == Init /\ [][Next]_vars

\* adoption alone, under every sequence of random suffixes
NextAdopt ==
    \E raw \in RawTrees : \E rs \in AllRandomSeqs(countNodes(raw)) : setAst(raw, rs)

SpecAdopt == Init /\ [][NextAdopt]_vars

(***************************************************************************)
(* buildFormula as a pure function: the tree is drawn from FormulaTrees    *)
(* and the action stores the text buildFormula returns for it.             *)
(***************************************************************************)
FormulaLeaves == {Number(2), Number(3)}

\* one operator over two leaves
FormulaPairs == {Binary(t, Number(2), Number(3)) : t \in BinaryTypes}

\* every operator over every pair of operands that are leaves or FormulaPairs
FormulaNested ==
    {Binary(t, l, r) : t \in BinaryTypes,
                       l \in FormulaPairs \cup {Number(4)},
                       r \in FormulaPairs \cup {Number(4)}}

\* a third level, on either side
FormulaDeep ==
    {Binary(t, Number(10), c) : t \in BinaryTypes, c \in FormulaNested}
      \cup {Binary(t, c, Variable("x")) : t \in BinaryTypes, c \in FormulaNested}

FormulaOperands ==
    FormulaPairs \cup FormulaLeaves
      \cup {NumberOf(JsDecimal(1, 50)), NumberOf(JsDecimal(0, 5)), Number(-3),
            Variable("x"), Variable("$y"), Constant("PI"), Constant("E"),
            Unary("NEGATION", Number(3)), Unary("PAREN", Number(3)),
            Unary("PAREN", Binary("ADDITION", Number(2), Number(3))),
            Function("SQRT", <<Number(4)>>),
            Function("MAX", <<Binary("ADDITION", Number(2), Number(3)),
                              Variable("x")>>),
            Function("NOW", <<>>)}

FormulaUnaries == {Unary(t, e) : t \in UnaryTypes, e \in FormulaOperands}

FormulaMixed ==
    {Binary(t, Unary("NEGATION", c), Number(4)) : t \in BinaryTypes, c \in FormulaPairs}
      \cup {Unary("NEGATION", Unary("NEGATION", c)) : c \in FormulaPairs}
      \cup {Function("MAX", <<c, Unary("NEGATION", c)>>) : c \in FormulaPairs}

FormulaTrees ==
    FormulaOperands \cup FormulaNested \cup FormulaDeep \cup FormulaUnaries
      \cup FormulaMixed
      \cup {Binary("SUBTRACTION", Number(10),
                   Binary("SUBTRACTION", Number(5), Number(2)))}

InitFormula ==
    /\ ast \in FormulaTrees \cup {null}
    /\ selectedNodeId = NullId
    /\ now = 0
    /\ lastOp = "init"
    /\ lastArg = NullId
    /\ prevAst = null
    /\ prevSel = NullId
    /\ lastRaw = null
    /\ output = <<>>

callBuildFormula ==
    /\ lastOp = "init"
    /\ output' = <<buildFormula(ast)>>
    /\ lastOp' = "buildFormula"
    /\ UNCHANGED <<ast, selectedNodeId, now, lastArg, prevAst, prevSel, lastRaw>>

SpecFormula == InitFormula /\ [][callBuildFormula]_vars

(***************************************************************************)
(* buildFormula on the groupings of one formula: every way of grouping the *)
(* leaves 1, 2, 3 under two operators, and the leaves 1, 2, 3, 4 under     *)
(* three operators that are not associative.                               *)
(***************************************************************************)
NonAssociativeTypes == {"SUBTRACTION", "DIVISION", "POWER"}

Groupings3(o1, o2) ==
    { Binary(o2, Binary(o1, Number(1), Number(2)), Number(3)),
      Binary(o1, Number(1), Binary(o2, Number(2), Number(3))) }

Groupings4(o1, o2, o3) ==
    { Binary(o3, Binary(o2, Binary(o1, Number(1), Number(2)), Number(3)), Number(4)),
      Binary(o3, Binary(o1, Number(1), Binary(o2, Number(2), Number(3))), Number(4)),
      Binary(o2, Binary(o1, Number(1), Number(2)), Binary(o3, Number(3), Number(4))),
      Binary(o1, Number(1), Binary(o3, Binary(o2, Number(2), Number(3)), Number(4))),
      Binary(o1, Number(1), Binary(o2, Number(2), Binary(o3, Number(3), Number(4)))) }

GroupingTrees ==
    UNION {Groupings3(o1, o2) : o1 \in BinaryTypes, o2 \in BinaryTypes}
      \cup UNION {Groupings4(o1, o2, o3) : o1 \in NonAssociativeTypes,
                                           o2 \in NonAssociativeTypes,
                                           o3 \in NonAssociativeTypes}

InitGrouping ==
    /\ ast \in GroupingTrees
    /\ selectedNodeId = NullId
    /\ now = 0
    /\ lastOp = "init"
    /\ lastArg = NullId
    /\ prevAst = null
    /\ prevSel = NullId
    /\ lastRaw = null
    /\ output = <<>>

SpecGrouping == InitGrouping /\ [][callBuildFormula]_vars

(***************************************************************************)
(* validateFormula as a pure function: the tree is drawn from              *)
(* ValidationTrees, which hold every violation validateNode looks for, and *)
(* the action stores the diagnostics validateFormula returns for it.       *)
(***************************************************************************)
SoundLeaves == {Number(3), NumberOf(JsDecimal(1, 50)), Variable("x"), Constant("PI")}

UnsoundLeaves ==
    {NumberOf(JsNaN), NumberOf(JsInfinity), NumberOf(JsNegInfinity),
     NumberOf(JsString("3")), NumberOf(JsUndefined), Variable("")}

ValidationLeaves == SoundLeaves \cup UnsoundLeaves

\* operands of one node: a leaf, or nothing
ValidationOperands == ValidationLeaves \cup {null}

ValidationFlat ==
    {Binary(t, l, r) : t \in {"ADDITION", "DIVISION"},
                       l \in ValidationOperands, r \in ValidationOperands}
      \cup {Unary(t, e) : t \in UnaryTypes, e \in ValidationOperands}
      \cup {Function(n, <<>>) : n \in {"", "MAX"}}
      \cup {Function(n, <<l>>) : n \in {"", "MAX"}, l \in ValidationLeaves}
      \cup {Function("MAX", <<l, r>>) : l \in UnsoundLeaves, r \in ValidationLeaves}

\* violations below a node that is itself sound or unsound
ValidationNested ==
    {Binary("ADDITION", Binary("MULTIPLICATION", l, r), Number(4)) :
        l \in {Number(3), NumberOf(JsNaN), null},
        r \in {Number(3), Variable(""), null}}
      \cup {Binary("ADDITION", Unary("NEGATION", e), r) :
              e \in {Number(3), NumberOf(JsNaN), null},
              r \in {Function("MAX", <<>>), null, Number(4)}}
      \cup {Function(n, <<Binary("ADDITION", l, null), Unary("NEGATION", e)>>) :
              n \in {"", "MAX"}, l \in {NumberOf(JsNaN), Number(3)},
              e \in {null, Variable("")}}

ValidationTrees == ValidationLeaves \cup ValidationFlat \cup ValidationNested

InitValidation ==
    /\ ast \in ValidationTrees
    /\ selectedNodeId = NullId
    /\ now = 0
    /\ lastOp = "init"
    /\ lastArg = NullId
    /\ prevAst = null
    /\ prevSel = NullId
    /\ lastRaw = null
    /\ output = <<>>

callValidateFormula ==
    /\ lastOp = "init"
    /\ output' = validateFormula(ast)
    /\ lastOp' = "validateFormula"
    /\ UNCHANGED <<ast, selectedNodeId, now, lastArg, prevAst, prevSel, lastRaw>>

SpecValidation == InitValidation /\ [][callValidateFormula]_vars

(***************************************************************************)
(* Positions in a tree, used to state the claims.  A position is the       *)
(* sequence of child indices leading from the root to a node.              *)
(***************************************************************************)
Children(node) ==
    IF isBinaryOperation(node) THEN <<node.left, node.right>>
    ELSE IF isUnaryOperation(node) THEN <<node.expression>>
    ELSE IF isFunction(node) THEN node.arguments
    ELSE <<>>

RECURSIVE Positions(_)
Positions(node) ==
    {<<>>} \cup UNION { {<<i>> \o p : p \in Positions(Children(node)[i])} :
                         i \in 1..Len(Children(node)) }

RECURSIVE At(_, _)
At(node, p) == IF p = <<>> THEN node ELSE At(Children(node)[Head(p)], Tail(p))

\* the tree with the subtree at position p replaced by sub
RECURSIVE ReplaceAt(_, _, _)
ReplaceAt(node, p, sub) ==
    IF p = <<>> THEN sub
    ELSE IF isBinaryOperation(node)
    THEN IF Head(p) = 1
         THEN [node EXCEPT !.left = ReplaceAt(node.left, Tail(p), sub)]
         ELSE [node EXCEPT !.right = ReplaceAt(node.right, Tail(p), sub)]
    ELSE IF isUnaryOperation(node)
    THEN [node EXCEPT !.expression = ReplaceAt(node.expression, Tail(p), sub)]
    ELSE [node EXCEPT !.arguments[Head(p)] =
                          ReplaceAt(node.arguments[Head(p)], Tail(p), sub)]

\* the last call was deleteNode on an existing tree
Deleted == lastOp = "deleteNode" /\ prevAst # null

\* ... and its identifier named exactly one node of that tree
DeletedOne == Deleted /\ IdCount(prevAst, lastArg) = 1

(***************************************************************************)
(* C1.  In every reachable state at most one node of the current tree has  *)
(* selected = true.                                                        *)
(***************************************************************************)
C1_AtMostOneSelected == SelectedCount(ast) <= 1

(***************************************************************************)
(* C2.  After setAst all node identifiers of the stamped tree are pairwise *)
(* distinct, whatever suffixes the random generator returns.               *)
(***************************************************************************)
C2_AdoptedIdsDistinct == (lastOp = "setAst") => DistinctIds(ast)

\* five nodes stamped with the empty suffix, two of them of the same type
C2_Witness ==
    /\ lastOp = "setAst"
    /\ ast.id = "SUBTRACTION_"
    /\ {"L_NEGATION_", "L_E_NUMBER_", "R_PAREN_", "R_E_NUMBER_"} \subseteq IdSet(ast)

(***************************************************************************)
(* C3.  In every state reachable from setAst by selectNode and deleteNode  *)
(* calls, all node identifiers of the current tree are pairwise distinct,  *)
(* placeholder identifiers included.                                       *)
(***************************************************************************)
C3_IdsStayDistinct == DistinctIds(ast)

(***************************************************************************)
(* C4.  As claimed: after deleteNode(id) the root of the current tree is   *)
(* the same node (same identifier, same kind) as before the call.          *)
(***************************************************************************)
SameRoot == ast.id = prevAst.id /\ ast.type = prevAst.type

C4_RootNeverRemoved == Deleted => SameRoot

\* the identifier names a direct child of a Binary or Unary root
HitsChildOfRoot ==
    \/ isBinaryOperation(prevAst)
         /\ (prevAst.left.id = lastArg \/ prevAst.right.id = lastArg)
    \/ isUnaryOperation(prevAst) /\ prevAst.expression.id = lastArg

(***************************************************************************)
(* C4, amended.  After deleteNode(id) the root is the same node as before  *)
(* unless id names a direct child of a Binary or Unary root (the root then *)
(* collapses to its other child, or to the placeholder).                   *)
(***************************************************************************)
C4_RootKeptUnlessChildOfRoot == (Deleted /\ ~HitsChildOfRoot) => SameRoot

\* a deletion two levels below a Unary root, which stays the root
C4_Witness ==
    /\ Deleted /\ ~HitsChildOfRoot
    /\ isUnaryOperation(prevAst)
    /\ lastArg \in IdSet(prevAst)
    /\ lastArg # prevAst.id
    /\ ast # prevAst

(***************************************************************************)
(* C5.  deleteNode(rootId) changes neither the tree nor selectedNodeId.    *)
(***************************************************************************)
C5_DeleteRootIsNoOp ==
    (Deleted /\ lastArg = prevAst.id) => (ast = prevAst /\ selectedNodeId = prevSel)

\* the root of a tree of several nodes was the target while a node was selected
C5_Witness ==
    /\ Deleted /\ lastArg = prevAst.id
    /\ countNodes(prevAst) > 1
    /\ prevSel \in IdSet(prevAst)
    /\ SelectedCount(prevAst) = 1

(***************************************************************************)
(* C6.  deleteNode(id) with an identifier that matches no node changes     *)
(* neither the tree content nor selectedNodeId.                            *)
(***************************************************************************)
C6_DeleteMissIsNoOp ==
    (Deleted /\ lastArg \notin IdSet(prevAst))
        => (ast = prevAst /\ selectedNodeId = prevSel)

(***************************************************************************)
(* C7.  After deleteNode(id) where id matches a non-root node,             *)
(* selectedNodeId is null and no node of the tree has selected = true.     *)
(***************************************************************************)
C7_DeleteClearsSelection ==
    (Deleted /\ lastArg \in IdSet(prevAst) /\ lastArg # prevAst.id)
        => (selectedNodeId = NullId /\ SelectedCount(ast) = 0)

(***************************************************************************)
(* C8.  After selectNode(id) on a tree with pairwise-distinct identifiers  *)
(* a node has selected = true iff its identifier equals id; the number of  *)
(* selected nodes is 1 when id matches a node and 0 otherwise.             *)
(***************************************************************************)
C8_SelectionExclusive ==
    (lastOp = "selectNode" /\ ast # null /\ DistinctIds(prevAst)) =>
        /\ \A i \in 1..Len(Nodes(ast)) :
              IsSelected(Nodes(ast)[i]) <=> (Nodes(ast)[i].id = lastArg)
        /\ SelectedCount(ast) = (IF lastArg \in IdSet(prevAst) THEN 1 ELSE 0)

\* the selection moved from one node to another
C8_Witness ==
    /\ lastOp = "selectNode" /\ ast # null /\ DistinctIds(prevAst)
    /\ SelectedCount(prevAst) = 1
    /\ lastArg \in IdSet(prevAst)
    /\ lastArg # prevSel
    /\ prevSel \in IdSet(prevAst)

Without(s, i) == SubSeq(s, 1, i - 1) \o SubSeq(s, i + 1, Len(s))

IsBareZero(node) ==
    /\ DOMAIN node = {"type", "value", "id"}
    /\ node.type = "NUMBER"
    /\ node.value = JsInt(0)

C12_ValidityPreserved ==
    (lastOp \in {"selectNode", "deleteNode"} /\ prevAst # null
        /\ validateFormula(prevAst) = <<>>)
      => validateFormula(ast) = <<>>

\* a deletion put a placeholder into a valid tree
C12_Witness ==
    /\ Deleted
    /\ validateFormula(prevAst) = <<>>
    /\ ast # prevAst
    /\ \E i \in 1..Len(Nodes(ast)) :
          IsBareZero(Nodes(ast)[i]) /\ Nodes(ast)[i].id \notin IdSet(prevAst)

(***************************************************************************)
(* C13.  Parenthesization rule of buildFormula: a Binary node C that is a  *)
(* direct child of a Binary node P is rendered inside one pair of          *)
(* parentheses if and only if prec(C) < prec(P), or prec(C) = prec(P) and  *)
(* P is Sub or Div and C is P's right operand (Add/Sub = 1, Mul/Div = 2,   *)
(* Pow = 3); otherwise it is rendered bare.  Mul(Add(2,3),4) renders       *)
(* "(2 + 3) * 4", Add(Mul(2,3),4) renders "2 * 3 + 4", Sub(10, Sub(5,2))   *)
(* renders "10 - (5 - 2)".                                                 *)
(***************************************************************************)
Prec(type) ==
    IF type \in {"ADDITION", "SUBTRACTION"} THEN 1
    ELSE IF type \in {"MULTIPLICATION", "DIVISION"} THEN 2
    ELSE 3

\* the rule of the claim, for the child on the given side (1 left, 2 right)
Wrapped(P, C, side) ==
    \/ Prec(C.type) < Prec(P.type)
    \/ /\ Prec(C.type) = Prec(P.type)
       /\ P.type \in {"SUBTRACTION", "DIVISION"}
       /\ side = 2

\* the text of a node rendered on its own
BareText(node) == buildFormula(node)

\* the text the rule gives to the operand of P on the given side
OperandText(P, side) ==
    LET C == Children(P)[side]
    IN  IF isBinaryOperation(C) /\ Wrapped(P, C, side)
        THEN "(" \o BareText(C) \o ")"
        ELSE BareText(C)

Rendered(tree) == lastOp = "buildFormula" /\ ast = tree

C13_Parenthesization ==
    /\ lastOp = "buildFormula" /\ ast # null =>
          \A p \in Positions(ast) :
             LET P == At(ast, p)
             IN  (isBinaryOperation(P)
                    /\ (isBinaryOperation(P.left) \/ isBinaryOperation(P.right)))
                   => /\ BareText(P) = OperandText(P, 1) \o " "
                                         \o operators[P.type] \o " "
                                         \o OperandText(P, 2)
                      /\ p = <<>> => output = <<BareText(P)>>
    /\ Rendered(Binary("MULTIPLICATION",
                       Binary("ADDITION", Number(2), Number(3)), Number(4)))
         => output = <<"(2 + 3) * 4">>
    /\ Rendered(Binary("ADDITION",
                       Binary("MULTIPLICATION", Number(2), Number(3)), Number(4)))
         => output = <<"2 * 3 + 4">>
    /\ Rendered(Binary("SUBTRACTION", Number(10),
                       Binary("SUBTRACTION", Number(5), Number(2))))
         => output = <<"10 - (5 - 2)">>

\* an equal-precedence right operand of a subtraction was rendered
C13_Witness ==
    /\ Rendered(Binary("SUBTRACTION", Number(10),
                       Binary("SUBTRACTION", Number(5), Number(2))))
    /\ output = <<"10 - (5 - 2)">>

(***************************************************************************)
(* C14.  buildFormula renders a Negate node as "-<expr>" when its child is *)
(* not a Binary node, and as "-(<expr>)" when its child is a Binary node,  *)
(* where <expr> is the child's text "<left> <symbol> <right>" in exactly   *)
(* one pair of parentheses: Negate(Add(2,3)) renders "-(2 + 3)".           *)
(***************************************************************************)
C14_NegateRendering ==
    (lastOp = "buildFormula" /\ ast # null /\ ast.type = "NEGATION")
      => IF isBinaryOperation(ast.expression)
         THEN output = <<"-(" \o BareText(ast.expression) \o ")">>
         ELSE output = <<"-" \o BareText(ast.expression)>>

\* the part of C14 that holds: a child that is not a Binary node
C14_NegateOfNonBinary ==
    (lastOp = "buildFormula" /\ ast # null /\ ast.type = "NEGATION"
        /\ ~isBinaryOperation(ast.expression))
      => output = <<"-" \o BareText(ast.expression)>>

\* what the code returns for Negate(Add(2,3))
C14_DoubleParentheses ==
    Rendered(Unary("NEGATION", Binary("ADDITION", Number(2), Number(3))))
      => output = <<"-((2 + 3))">>

(***************************************************************************)
(* C15.  validateFormula collects every diagnostic of the whole tree: the  *)
(* walk continues past a violation, so each violating node anywhere in the *)
(* tree contributes its diagnostic to the returned list, the violations in *)
(* the present child of a Binary node whose other operand is missing       *)
(* included.                                                               *)
(***************************************************************************)
\* the diagnostics a node gives rise to by itself, its children set aside
OwnDiagnostics(node) ==
    IF isBinaryOperation(node)
    THEN IF Missing(node, "left") \/ Missing(node, "right")
         THEN <<"Binary operation " \o node.type \o " missing operands">>
         ELSE <<>>
    ELSE IF isUnaryOperation(node)
    THEN IF Missing(node, "expression")
         THEN <<"Unary operation missing expression">>
         ELSE <<>>
    ELSE IF isFunction(node)
    THEN (IF node.name = "" THEN <<"Function missing name">> ELSE <<>>)
           \o (IF Len(node.arguments) = 0
               THEN <<"Function " \o node.name \o " has no arguments">>
               ELSE <<>>)
    ELSE IF node.type = "NUMBER" THEN numberErrors(node)
    ELSE IF node.type = "VARIABLE" /\ node.name = ""
    THEN <<"Variable missing name">>
    ELSE <<>>

\* the children a node has, the missing ones left out
PresentChildren(node) == SelectSeq(Children(node), LAMBDA c : c # null)

\* the diagnostics of every node of the tree, parents first
RECURSIVE EveryDiagnostic(_)
EveryDiagnostic(node) ==
    OwnDiagnostics(node)
      \o Flatten([i \in 1..Len(PresentChildren(node)) |->
                    EveryDiagnostic(PresentChildren(node)[i])])

C15_AllDiagnosticsCollected ==
    lastOp = "validateFormula" => output = EveryDiagnostic(ast)

\* what the code returns for Add(Number NaN, <missing>)
C15_PresentChildSkipped ==
    (lastOp = "validateFormula" /\ ast = Binary("ADDITION", NumberOf(JsNaN), null))
      => output = <<"Binary operation ADDITION missing operands">>

(***************************************************************************)
(* C16.  validateFormula reports a diagnostic for every Number leaf whose  *)
(* value is not a finite number (NaN, +Infinity, -Infinity or a            *)
(* non-number), and reports none for a finite value.                       *)
(***************************************************************************)
\* Number.isFinite(v)
IsFinite(v) == v.kind \in {"integer", "decimal"}

C16_NonFiniteNumberReported ==
    (lastOp = "validateFormula" /\ ast.type = "NUMBER")
      => (output # <<>>) = ~IsFinite(ast.value)

\* the part of C16 that holds: NaN and non-numbers are reported, finite values are not
C16_NaNAndNonNumberReported ==
    (lastOp = "validateFormula" /\ ast.type = "NUMBER"
        /\ ast.value.kind \notin {"Infinity", "-Infinity"})
      => (output # <<>>) = ~IsFinite(ast.value)

(***************************************************************************)
(* C17.  For every current tree, nodeCount is the total number of nodes    *)
(* and treeDepth is the length of the longest root-to-leaf path (1 for a   *)
(* leaf and for a Function with zero arguments); both are 0 when there is  *)
(* no tree.  Add(Number 1, Mul(Number 2, Number 3)) has nodeCount 5 and    *)
(* treeDepth 3.                                                            *)
(***************************************************************************)
\* the number of nodes on the longest path from the root
LongestPath(tree) ==
    CHOOSE n \in {Len(p) + 1 : p \in Positions(tree)} :
        \A p \in Positions(tree) : Len(p) + 1 <= n

C17_CountAndDepth ==
    /\ ast = null => nodeCount = 0 /\ treeDepth = 0
    /\ ast # null =>
          /\ nodeCount = Cardinality(Positions(ast))
          /\ treeDepth = LongestPath(ast)
    /\ (lastOp = "setAst"
          /\ lastRaw = Binary("ADDITION", Number(1),
                              Binary("MULTIPLICATION", Number(2), Number(3))))
         => nodeCount = 5 /\ treeDepth = 3

\* the example tree is the current tree
C17_Witness ==
    /\ lastOp = "setAst"
    /\ lastRaw = Binary("ADDITION", Number(1),
                        Binary("MULTIPLICATION", Number(2), Number(3)))
    /\ nodeCount = 5
    /\ treeDepth = 3

(***************************************************************************)
(* C18.  Deep deletion in a single call: for a tree with pairwise-distinct *)
(* identifiers and a target id matching a non-root node at any depth,      *)
(* after one deleteNode(id) no node with that identifier and no node of    *)
(* its subtree remains; the only other node removed is the target's parent *)
(* when that parent is a Binary or Unary node; every other node survives   *)
(* with its identifier, kind and payload unchanged, and at most one new    *)
(* (placeholder) node is added.                                            *)
(***************************************************************************)
\* a node without its children and its selected flag
Payload(node) ==
    [f \in DOMAIN node \ {"left", "right", "expression", "arguments", "selected"}
       |-> node[f]]

\* the position of the node the last call named
TargetPosition == CHOOSE p \in Positions(prevAst) : At(prevAst, p).id = lastArg

TargetParent == At(prevAst, SubSeq(TargetPosition, 1, Len(TargetPosition) - 1))

\* the identifiers the call is to remove
RemovedIds ==
    IdSet(At(prevAst, TargetPosition))
      \cup (IF isBinaryOperation(TargetParent) \/ isUnaryOperation(TargetParent)
            THEN {TargetParent.id}
            ELSE {})

\* deleteNode was called on a tree of distinct identifiers with the
\* identifier of a node below the root
DeletedBelowRoot ==
    /\ Deleted
    /\ DistinctIds(prevAst)
    /\ lastArg \in IdSet(prevAst)
    /\ lastArg # prevAst.id

DeepDeletionEffect ==
    /\ IdSet(ast) \cap IdSet(At(prevAst, TargetPosition)) = {}
    /\ \A i \in 1..Len(Nodes(prevAst)) :
          LET n == Nodes(prevAst)[i]
          IN  IF n.id \in RemovedIds
              THEN TRUE
              ELSE /\ IdCount(ast, n.id) = 1
                   /\ \E j \in 1..Len(Nodes(ast)) :
                         Payload(Nodes(ast)[j]) = Payload(n)
    /\ TargetParent.id \in RemovedIds => TargetParent.id \notin IdSet(ast)
    /\ Len(SelectSeq(Nodes(ast), LAMBDA n : n.id \notin IdSet(prevAst) \ RemovedIds))
         <= 1

C18_DeepDeletion == DeletedBelowRoot => DeepDeletionEffect

\* the part of C18 that holds: a tree that holds no placeholder yet
C18_DeepDeletionFirstPlaceholder ==
    (DeletedBelowRoot
        /\ \A clock \in 0..MaxClock : placeholder(clock).id \notin IdSet(prevAst))
      => DeepDeletionEffect

(***************************************************************************)
(* C19.  selectNode(id) changes only selected flags: the resulting tree    *)
(* has the same shape, node kinds, payloads, argument order and            *)
(* identifiers as the tree before the call, for any id (matching,          *)
(* non-matching or null); and selecting the same id again on the result    *)
(* yields the same tree content.                                           *)
(***************************************************************************)
\* a tree without its selected flags
RECURSIVE Strip(_)
Strip(node) ==
    [f \in DOMAIN node \ {"selected"} |->
       IF f \in {"left", "right", "expression"} THEN Strip(node[f])
       ELSE IF f = "arguments"
       THEN [i \in 1..Len(node[f]) |-> Strip(node[f][i])]
       ELSE node[f]]

C19_SelectChangesOnlyFlags ==
    lastOp = "selectNode" =>
       IF prevAst = null
       THEN ast = null
       ELSE /\ Strip(ast) = Strip(prevAst)
            /\ updateNodeSelection(ast, lastArg) = ast

\* a selection moved from one node of a tree to another
C19_Witness ==
    /\ lastOp = "selectNode"
    /\ prevAst # null
    /\ prevSel \in IdSet(prevAst)
    /\ lastArg \in IdSet(prevAst)
    /\ lastArg # prevSel
    /\ ast # prevAst
    /\ Len(Nodes(ast)) >= 3

(***************************************************************************)
(* C20.  Replacing or clearing the tree resets the selection: immediately  *)
(* after setAst(raw), selectedNodeId is null, every node of the current    *)
(* tree has selected = false, and the tree has the same shape and payloads *)
(* as raw; immediately after clearAst, the current tree is null and        *)
(* selectedNodeId is null, regardless of what was selected before.         *)
(***************************************************************************)
\* a tree without its identifiers and its selected flags
RECURSIVE Bare(_)
Bare(node) ==
    [f \in DOMAIN node \ {"id", "selected"} |->
       IF f \in {"left", "right", "expression"} THEN Bare(node[f])
       ELSE IF f = "arguments"
       THEN [i \in 1..Len(node[f]) |-> Bare(node[f][i])]
       ELSE node[f]]

C20_ReplaceAndClearReset ==
    /\ lastOp = "setAst" =>
          /\ selectedNodeId = NullId
          /\ \A i \in 1..Len(Nodes(ast)) :
                "selected" \in DOMAIN Nodes(ast)[i] /\ ~Nodes(ast)[i].selected
          /\ Bare(ast) = Bare(lastRaw)
    /\ lastOp = "clearAst" => ast = null /\ selectedNodeId = NullId

\* a tree was installed while a node of the previous tree was selected, and
\* the raw tree itself carried a selected flag
C20_Witness ==
    /\ lastOp = "setAst"
    /\ prevSel \notin {NullId, MissingId}
    /\ \E i \in 1..Len(Nodes(lastRaw)) : IsSelected(Nodes(lastRaw)[i])

\* the tree was cleared while a node was selected
C20_ClearWitness ==
    /\ lastOp = "clearAst"
    /\ prevSel \notin {NullId, MissingId}
    /\ ast = null

(***************************************************************************)
(* C21.  The two representations of the selection agree in every reachable *)
(* state: a node of the current tree has selected = true if and only if    *)
(* its identifier equals selectedNodeId (so selectedNodeId = null implies  *)
(* no node is flagged, and a flagged node implies selectedNode() returns   *)
(* that node).                                                             *)
(***************************************************************************)
C21_SelectionRepresentationsAgree ==
    \A i \in 1..Len(Nodes(ast)) :
       LET n == Nodes(ast)[i]
       IN  /\ IsSelected(n) <=> (n.id = selectedNodeId)
           /\ IsSelected(n) => selectedNode = n

\* the part of C21 that holds: the representations agree after setAst and
\* clearAst, and after selectNode on a tree of distinct identifiers
C21_AgreeAfterSelect ==
    (lastOp \in {"setAst", "clearAst"} \/ (lastOp = "selectNode" /\ DistinctIds(ast)))
      => \A i \in 1..Len(Nodes(ast)) :
            /\ IsSelected(Nodes(ast)[i]) <=> (Nodes(ast)[i].id = selectedNodeId)
            /\ IsSelected(Nodes(ast)[i]) => selectedNode = Nodes(ast)[i]

(***************************************************************************)
(* C22.  In every reachable state canDelete is true if and only if         *)
(* selectedNodeId matches a node of the current tree that is not the root; *)
(* and whenever canDelete is true, deleteNode(selectedNodeId) produces a   *)
(* tree that no longer contains a node with that identifier.               *)
(***************************************************************************)
\* some node other than the root carries the identifier
MatchesBelowRoot(tree, id) ==
    tree # null /\ \E p \in Positions(tree) : p # <<>> /\ At(tree, p).id = id

\* canDelete as it was before the last call
CouldDelete ==
    /\ prevAst # null
    /\ prevSel # NullId
    /\ findNodeById(prevAst, prevSel) \notin {null, prevAst}

C22_CanDeleteIffBelowRoot == canDelete <=> MatchesBelowRoot(ast, selectedNodeId)

C22_DeleteSelectedRemovesIt ==
    (Deleted /\ CouldDelete /\ lastArg = prevSel) => lastArg \notin IdSet(ast)

C22_CanDelete == C22_CanDeleteIffBelowRoot /\ C22_DeleteSelectedRemovesIt

\* the part of C22 that holds: the selected node is not a placeholder
C22_DeleteSelectedOriginal ==
    (Deleted /\ CouldDelete /\ lastArg = prevSel
        /\ \A clock \in 0..MaxClock : lastArg # placeholder(clock).id)
      => lastArg \notin IdSet(ast)

\* the selected node below the root was deleted
C22_Reached ==
    /\ Deleted /\ CouldDelete /\ lastArg = prevSel
    /\ lastArg \notin IdSet(ast)
    /\ ast # prevAst

(***************************************************************************)
(* C23.  deleteNode never grows the tree: for any tree and any identifier, *)
(* nodeCount after deleteNode is less than or equal to nodeCount before,   *)
(* and treeDepth after is less than or equal to treeDepth before;          *)
(* nodeCount is unchanged only when nothing was removed or when the sole,  *)
(* leaf argument of a Function was replaced by a placeholder.              *)
(***************************************************************************)
\* nodeCount and treeDepth of a tree that may be absent
CountOf(tree) == IF tree # null THEN countNodes(tree) ELSE 0
DepthOf(tree) == IF tree # null THEN calculateDepth(tree) ELSE 0

\* a Function whose only argument was the leaf the call named now holds a
\* placeholder as its only argument
SoleLeafArgumentReplaced ==
    \E p \in Positions(prevAst) :
       LET f == At(prevAst, p)
       IN  /\ isFunction(f)
           /\ Len(f.arguments) = 1
           /\ Children(f.arguments[1]) = <<>>
           /\ f.arguments[1].id = lastArg
           /\ p \in Positions(ast)
           /\ isFunction(At(ast, p))
           /\ Len(At(ast, p).arguments) = 1
           /\ IsBareZero(At(ast, p).arguments[1])

C23_DeleteNeverGrows ==
    lastOp = "deleteNode" =>
       /\ nodeCount <= CountOf(prevAst)
       /\ treeDepth <= DepthOf(prevAst)
       /\ nodeCount = CountOf(prevAst) => ast = prevAst \/ SoleLeafArgumentReplaced

\* the sole leaf argument of a Function gave way to a placeholder, and
\* the count stayed the same
C23_Witness ==
    /\ Deleted
    /\ ast # prevAst
    /\ nodeCount = CountOf(prevAst)
    /\ SoleLeafArgumentReplaced

\* a deletion three levels below the root made the tree smaller and shallower
C23_ShrinkWitness ==
    /\ Deleted
    /\ nodeCount < CountOf(prevAst)
    /\ treeDepth < DepthOf(prevAst)
    /\ DepthOf(prevAst) >= 4

(***************************************************************************)
(* C24.  buildFormula inserts parentheses wherever associativity requires  *)
(* them, so grouping is never lost: for trees built only from Binary nodes *)
(* over distinct non-negative Number leaves, two trees that differ in the  *)
(* grouping of non-associative operators (Sub, Div, Pow), such as          *)
(* Pow(Pow(a,b),c) and Pow(a,Pow(b,c)), never render to the same text.     *)
(* Stated for trees whose operators are all non-associative: a tree with   *)
(* the same leaves and operators in the same order, grouped otherwise,     *)
(* renders to another text.                                                *)
(***************************************************************************)
\* the leaves and operators of a tree of Binary nodes, left to right
RECURSIVE InOrder(_)
InOrder(node) ==
    IF isBinaryOperation(node)
    THEN InOrder(node.left) \o <<node.type>> \o InOrder(node.right)
    ELSE <<ToString(node.value.n)>>

\* the operators of a tree of Binary nodes
RECURSIVE OperatorsOf(_)
OperatorsOf(node) ==
    IF isBinaryOperation(node)
    THEN {node.type} \cup OperatorsOf(node.left) \cup OperatorsOf(node.right)
    ELSE {}

\* the other groupings of the formula of a tree
Regroupings(tree) == {t \in GroupingTrees : t # tree /\ InOrder(t) = InOrder(tree)}

C24_GroupingNeverLost ==
    (lastOp = "buildFormula" /\ OperatorsOf(ast) \subseteq NonAssociativeTypes)
      => \A t \in Regroupings(ast) : buildFormula(t) # output[1]

\* the part of C24 that holds: Sub and Div
C24_SubDivGroupingKept ==
    (lastOp = "buildFormula" /\ OperatorsOf(ast) \subseteq {"SUBTRACTION", "DIVISION"})
      => \A t \in Regroupings(ast) : buildFormula(t) # output[1]

\* the part of C24 that holds: no Pow node is a child of a Pow node
C24_GroupingKeptUnlessPowInPow ==
    (lastOp = "buildFormula" /\ OperatorsOf(ast) \subseteq NonAssociativeTypes)
      => \A t \in Regroupings(ast) :
            buildFormula(t) = output[1]
              => \E p \in Positions(ast) :
                    /\ At(ast, p).type = "POWER"
                    /\ \E i \in 1..2 : Children(At(ast, p))[i].type = "POWER"

\* what the code returns for Pow(Pow(1,2),3) and for Pow(1,Pow(2,3))
C24_PowerGroupingLost ==
    (lastOp = "buildFormula"
        /\ ast \in Groupings3("POWER", "POWER"))
      => output = <<"1 ^ 2 ^ 3">>

====
